---- MODULE Spec2Model ----
(***************************************************************************)
(* The GLM converter searchers (src/demos/glm-converter): three engines    *)
(* that watch the chain head and try to call buy on the converter.         *)
(*   searcher.py              polls get_block("latest"), sends transact()  *)
(*   subscription-searcher.py newHeads over a websocket, public mempool    *)
(*   flashbots-searcher.py    newHeads over a websocket, mempool (-m) or a *)
(*                            Flashbots bundle for the next block          *)
(* Strings that the code slices or compares character by character (the    *)
(* hex text of the revert data, the selectors) are sequences of            *)
(* one-character strings; names and log lines are TLA+ strings.            *)
(***************************************************************************)
EXTENDS Integers, Sequences, FiniteSets, TLC

VARIABLES
    engine,         \* which script runs: "searcher", "subscription", "flashbots"
    use_mempool,    \* flashbots-searcher.py's -m flag (TRUE for the other two)
    pc,             \* the statement the single worker is at
    exit_status,    \* "running", "exit1" (exit(1)), "uncaught" (traceback)
    raised,         \* the exception that ended the process, "none" otherwise
    inbox,          \* newHeads messages received by the socket, not yet read
    notified,       \* number of head notifications / polls produced so far
    delivered,      \* heights handed to the engine so far, in order
    evals,          \* indexes into delivered for which buy(..).call() ran
    state_height,   \* state["height"] of searcher.py
    height,         \* the height of the cycle in progress
    can_buy,        \* local of try_to_buy / loop
    failure_reason, \* local of try_to_buy / loop
    last_error,     \* [at, kind]: the failure the last step met, if any
    effects,        \* external calls of the cycle in progress, in order
    log,            \* log lines of the cycle in progress, in order
    outcome,        \* outcome of the last submission
    conn,           \* the websocket: "none", "open", "dropped", "closed"
    connections,    \* how many times get_event has connected
    timeouts,       \* receives that ended by the 60 s timeout so far
    drops,          \* connection drops so far
    txcount,        \* the account's transaction count on chain
    pending,        \* the account's transactions waiting in the mempool
    nonce,          \* local of submit_mempool / submit_flashbots / try_to_buy
    dec_data,       \* decoder harness: the exception's data
    dec_result      \* decoder harness: what decode_custom_error did

vars == << engine, use_mempool, pc, exit_status, raised, inbox, notified,
           delivered, evals, state_height, height, can_buy, failure_reason,
           last_error, effects, log, outcome, conn, connections, timeouts,
           drops, txcount, pending, nonce, dec_data, dec_result >>

engineVars == << use_mempool, pc, exit_status, raised, inbox, notified,
                 delivered, evals, state_height, height, can_buy,
                 failure_reason, last_error, effects, log, outcome >>

decVars == << dec_data, dec_result >>

netVars == << conn, connections, timeouts, drops >>

chainVars == << txcount, pending >>

-----------------------------------------------------------------------------
(* Bounds of the model *)

MaxHeight == 2          \* heights the node reports are 1..MaxHeight
MaxEvents == 3          \* head notifications (or polls) in one run
MaxInbox  == 2          \* unread messages the socket buffers
MaxTimeouts == 2        \* receive timeouts in one run
MaxDrops  == 1          \* connection drops in one run
MaxSuggestedFee == 1    \* w3.eth.max_priority_fee answers 0..MaxSuggestedFee gwei

Heights == 1 .. MaxHeight

Engines == {"searcher", "subscription", "flashbots"}

None == "None"          \* Python's None, as the log prints it

-----------------------------------------------------------------------------
(* Python string and bytes primitives used by decode_custom_error *)

Min(a, b) == IF a < b THEN a ELSE b

\* s[a:b] for 0 <= a <= b: Python clamps the slice to the string
Slice(s, a, b) == SubSeq(s, Min(a, Len(s)) + 1, Min(b, Len(s)))

\* s[a:]
SliceFrom(s, a) == SubSeq(s, Min(a, Len(s)) + 1, Len(s))

LowerOf(c) ==
    CASE c = "A" -> "a" [] c = "B" -> "b" [] c = "C" -> "c"
      [] c = "D" -> "d" [] c = "E" -> "e" [] c = "F" -> "f"
      [] c = "X" -> "x" [] c = "N" -> "n" [] c = "Z" -> "z"
      [] OTHER -> c

\* a comparison that tells capitals from small letters
casefold_exact(s) == s

\* str.casefold on the characters that occur
casefold(s) == [i \in DOMAIN s |-> LowerOf(s[i])]

HexDigits == {"0", "1", "2", "3", "4", "5", "6", "7", "8", "9",
              "a", "b", "c", "d", "e", "f", "A", "B", "C", "D", "E", "F"}

HexVal(c) ==
    CASE c = "0" -> 0 [] c = "1" -> 1 [] c = "2" -> 2 [] c = "3" -> 3
      [] c = "4" -> 4 [] c = "5" -> 5 [] c = "6" -> 6 [] c = "7" -> 7
      [] c = "8" -> 8 [] c = "9" -> 9
      [] LowerOf(c) = "a" -> 10 [] LowerOf(c) = "b" -> 11
      [] LowerOf(c) = "c" -> 12 [] LowerOf(c) = "d" -> 13
      [] LowerOf(c) = "e" -> 14 [] LowerOf(c) = "f" -> 15

\* bytes.fromhex: ValueError on a non-hex character or an odd number of digits
fromhex(s) ==
    IF (\E i \in DOMAIN s : s[i] \notin HexDigits) \/ Len(s) % 2 = 1
    THEN [raised |-> "ValueError", value |-> << >>]
    ELSE [raised |-> "none",
          value  |-> [i \in 1 .. (Len(s) \div 2) |->
                         16 * HexVal(s[2 * i - 1]) + HexVal(s[2 * i])]]

\* str(x) of the exception's data: the text itself, or "None" when it has none
str(data) == IF data.none THEN << "N", "o", "n", "e" >> ELSE data.text

RECURSIVE join(_, _)
\* sep.join(parts)
join(sep, parts) ==
    IF parts = << >> THEN ""
    ELSE IF Len(parts) = 1 THEN parts[1]
    ELSE parts[1] \o sep \o join(sep, Tail(parts))

-----------------------------------------------------------------------------
(* The ABI tables *)

\* keccak256 of the signature text, first 4 bytes, as .hex() prints them
selector_hex(signature) ==
    CASE signature = "Converter__SoftwareError()" -> << "b", "0", "5", "8", "5", "3", "5", "7" >>
      [] signature = "Converter__SpendingTooMuch()" -> << "7", "3", "1", "7", "9", "7", "f", "f" >>
      [] signature = "Converter__WrongPrevrandao()" -> << "0", "0", "6", "3", "c", "8", "3", "e" >>
      [] signature = "Converter__RandomnessAlreadyUsed()" -> << "8", "4", "9", "8", "8", "8", "c", "6" >>
      [] signature = "Converter__RandomnessUnsafeSeed()" -> << "b", "5", "1", "0", "a", "9", "2", "9" >>
      [] signature = "buy()" -> << "a", "6", "f", "2", "a", "e", "3", "a" >>
      [] signature = "price()" -> << "a", "0", "3", "5", "b", "1", "f", "e" >>
      [] signature = "lastBought()" -> << "7", "6", "6", "e", "f", "8", "9", "a" >>
      [] signature = "lastSold()" -> << "e", "f", "c", "8", "5", "7", "7", "0" >>
      [] signature = "saleValueLow()" -> << "d", "e", "7", "c", "b", "b", "0", "2" >>
      [] signature = "saleValueHigh()" -> << "9", "e", "b", "9", "7", "e", "c", "2" >>
      [] signature = "spent()" -> << "7", "a", "b", "7", "1", "b", "7", "a" >>
      [] signature = "startingBlock()" -> << "d", "9", "1", "c", "9", "8", "d", "3" >>
      [] signature = "spendADay()" -> << "6", "2", "0", "3", "c", "f", "d", "d" >>
      [] signature = "test_rand()" -> << "b", "b", "f", "1", "5", "c", "8", "3" >>
      [] signature = "test_limit()" -> << "0", "b", "3", "f", "e", "5", "c", "9" >>
      [] signature = "randao()" -> << "5", "6", "e", "8", "3", "e", "8", "1" >>
      [] signature = "chance()" -> << "5", "9", "9", "3", "9", "0", "8", "b" >>
      [] signature = "Transformer__SoftwareError()" -> << "1", "7", "1", "a", "e", "e", "a", "8" >>
      [] signature = "Transformer__SpendingTooMuch()" -> << "4", "7", "8", "c", "3", "d", "7", "b" >>
      [] signature = "Transformer__WrongHeight()" -> << "e", "3", "d", "f", "8", "0", "9", "d" >>
      [] signature = "Transformer__RandomnessAlreadyUsed()" -> << "b", "5", "2", "3", "5", "f", "3", "f" >>
      [] signature = "Transformer__RandomnessUnsafeSeed()" -> << "b", "2", "6", "2", "3", "d", "8", "0" >>
      [] signature = "buy(uint256)" -> << "d", "9", "6", "a", "0", "9", "4", "a" >>
      [] signature = "getRandomNumber(uint256)" -> << "b", "3", "7", "2", "1", "7", "a", "4" >>

conv_abi_searcher ==
    <<
        [type |-> "error", name |-> "Converter__SoftwareError", inputs |-> << >>],
        [type |-> "error", name |-> "Converter__SpendingTooMuch", inputs |-> << >>],
        [type |-> "error", name |-> "Converter__WrongPrevrandao", inputs |-> << >>],
        [type |-> "error", name |-> "Converter__RandomnessAlreadyUsed", inputs |-> << >>],
        [type |-> "error", name |-> "Converter__RandomnessUnsafeSeed", inputs |-> << >>],
        [type |-> "function", name |-> "buy", inputs |-> << >>],
        [type |-> "function", name |-> "price", inputs |-> << >>],
        [type |-> "function", name |-> "lastBought", inputs |-> << >>],
        [type |-> "function", name |-> "lastSold", inputs |-> << >>],
        [type |-> "function", name |-> "saleValueLow", inputs |-> << >>],
        [type |-> "function", name |-> "saleValueHigh", inputs |-> << >>],
        [type |-> "function", name |-> "spent", inputs |-> << >>],
        [type |-> "function", name |-> "startingBlock", inputs |-> << >>],
        [type |-> "function", name |-> "spendADay", inputs |-> << >>],
        [type |-> "function", name |-> "test_rand", inputs |-> << >>],
        [type |-> "function", name |-> "test_limit", inputs |-> << >>],
        [type |-> "function", name |-> "randao", inputs |-> << >>],
        [type |-> "function", name |-> "chance", inputs |-> << >>]
    >>

conv_abi_subscription ==
    <<
        [type |-> "error", name |-> "Converter__SoftwareError", inputs |-> << >>],
        [type |-> "error", name |-> "Converter__SpendingTooMuch", inputs |-> << >>],
        [type |-> "error", name |-> "Converter__WrongPrevrandao", inputs |-> << >>],
        [type |-> "function", name |-> "buy", inputs |-> << >>],
        [type |-> "function", name |-> "price", inputs |-> << >>],
        [type |-> "function", name |-> "lastBought", inputs |-> << >>],
        [type |-> "function", name |-> "lastSold", inputs |-> << >>],
        [type |-> "function", name |-> "saleValueLow", inputs |-> << >>],
        [type |-> "function", name |-> "saleValueHigh", inputs |-> << >>],
        [type |-> "function", name |-> "spent", inputs |-> << >>],
        [type |-> "function", name |-> "startingBlock", inputs |-> << >>],
        [type |-> "function", name |-> "spendADay", inputs |-> << >>],
        [type |-> "function", name |-> "test_rand", inputs |-> << >>],
        [type |-> "function", name |-> "test_limit", inputs |-> << >>],
        [type |-> "function", name |-> "randao", inputs |-> << >>],
        [type |-> "function", name |-> "chance", inputs |-> << >>]
    >>

conv_abi_flashbots ==
    <<
        [type |-> "error", name |-> "Transformer__SoftwareError", inputs |-> << >>],
        [type |-> "error", name |-> "Transformer__SpendingTooMuch", inputs |-> << >>],
        [type |-> "error", name |-> "Transformer__WrongHeight", inputs |-> << >>],
        [type |-> "error", name |-> "Transformer__RandomnessAlreadyUsed", inputs |-> << >>],
        [type |-> "error", name |-> "Transformer__RandomnessUnsafeSeed", inputs |-> << >>],
        [type |-> "function", name |-> "buy", inputs |-> << "uint256" >>],
        [type |-> "function", name |-> "getRandomNumber", inputs |-> << "uint256" >>]
    >>


-----------------------------------------------------------------------------
(* The failure registry and the Error Decoder *)

conv_abi(e) ==
    CASE e = "searcher"     -> conv_abi_searcher
      [] e = "subscription" -> conv_abi_subscription
      [] e = "flashbots"    -> conv_abi_flashbots

\* flashbots-searcher.py calls function_abi_to_4byte_selector and
\* collapse_if_tuple but does not import them from eth_utils.abi: there the
\* two names are unbound, and evaluating either raises NameError
helpers_imported(e) == e # "flashbots"

\* name(type1,type2,...), the text eth_utils hashes
abi_signature(entry) == entry.name \o "(" \o join(",", entry.inputs) \o ")"

\* function_abi_to_4byte_selector(error).hex()
function_abi_to_4byte_selector(entry) == selector_hex(abi_signature(entry))

\* w3.codec.decode(data_types, payload). Every error of the three registries
\* has inputs = [], and decoding an empty tuple of types reads no byte of the
\* payload and returns (); no other case is defined.
codec_decode(data_types, payload) ==
    CASE data_types = << >> -> [raised |-> "none", value |-> << >>]

RECURSIVE decode_from(_, _, _, _)
\* the for loop of decode_custom_error, from the i-th error entry on
decode_from(e, errors, error_data, i) ==
    IF i > Len(errors) THEN [raised |-> "none", value |-> None]
    ELSE
      LET error == errors[i]
          name  == error.name
      IN
      IF error.inputs # << >> /\ ~helpers_imported(e)
      THEN [raised |-> "NameError", value |-> None]     \* collapse_if_tuple
      ELSE IF ~helpers_imported(e)
      THEN [raised |-> "NameError", value |-> None]     \* ..._4byte_selector
      ELSE
        LET data_types          == error.inputs
            error_signature_hex == function_abi_to_4byte_selector(error)
        IN
        IF casefold(error_signature_hex) = casefold(Slice(str(error_data), 2, 10))
        THEN
          LET raw == fromhex(SliceFrom(str(error_data), 10)) IN
          IF raw.raised # "none" THEN [raised |-> raw.raised, value |-> None]
          ELSE
            LET dec == codec_decode(data_types, raw.value) IN
            IF dec.raised # "none" THEN [raised |-> dec.raised, value |-> None]
            ELSE
              LET params == join(",", dec.value) IN
              [raised |-> "none", value |-> name \o "(" \o params \o ")"]
        ELSE decode_from(e, errors, error_data, i + 1)

IsErrorEntry(entry) == entry.type = "error"

\* decode_custom_error(w3, contract_abi, error_data) of engine e:
\* [raised, value], value the decoded text or None
decode_custom_error(e, contract_abi, error_data) ==
    decode_from(e, SelectSeq(contract_abi, IsErrorEntry), error_data, 1)

-----------------------------------------------------------------------------
(* What the node, the contract and the relay can answer *)

Data(text) == [none |-> FALSE, text |-> text]
NoData     == [none |-> TRUE, text |-> << >>]

Hex0x(sel, payload) == << "0", "x" >> \o sel \o payload

\* the selector of a registered failure of engine e (its third error entry:
\* Converter__WrongPrevrandao, Transformer__WrongHeight)
RegisteredSelector(e) ==
    function_abi_to_4byte_selector(SelectSeq(conv_abi(e), IsErrorEntry)[3])

UnregisteredSelector == << "d", "e", "a", "d", "b", "e", "e", "f" >>

\* revert data a ContractCustomError can carry: a registered failure, an
\* unregistered one, a registered selector followed by half a byte, no data
EngineErrorData(e) ==
    { Data(Hex0x(RegisteredSelector(e), << >>)),
      Data(Hex0x(UnregisteredSelector, << >>)),
      Data(Hex0x(RegisteredSelector(e), << "0" >>)),
      NoData }

Ok == [kind |-> "ok", data |-> NoData]
Failure(kind) == [kind |-> kind, data |-> NoData]
CustomError(d) == [kind |-> "ContractCustomError", data |-> d]

\* answers of a contract call, gas estimation included
ContractResults(e) ==
    { Ok, Failure("ContractLogicError"), Failure("Exception") }
      \cup { CustomError(d) : d \in EngineErrorData(e) }

\* answers of a JSON-RPC or relay request: a result, error code -32000
\* (service unavailable), any other error
RpcResults == { Ok, Failure("unavailable"), Failure("error") }

\* answers of send_result.receipts()
ReceiptResults == { Ok, Failure("TransactionNotFound"), Failure("error") }

NoError == [at |-> "none", kind |-> "none"]

-----------------------------------------------------------------------------
(* The handlers, as functions of the answer they get *)

\* the argument list of buy in the simulated call and in the build
buy_args(e, h) == IF e = "flashbots" THEN << h - 1 >> ELSE << >>

\* a bundle aimed at the block that is already there
target_block_number_current(h) == h

\* target_block_number of send_bundle
target_block_number(h) == h + 1

\* the block number given to get_bundle_stats and get_bundle_stats_v2
stats_block_number(h) == h + 1

\* the try statement around the simulated call
try_call(e, res) ==
    IF res.kind = "ok"
    THEN [can_buy |-> TRUE, failure_reason |-> None, raised |-> "none"]
    ELSE IF res.kind = "ContractCustomError"
    THEN LET d == decode_custom_error(e, conv_abi(e), res.data) IN
         [can_buy |-> FALSE, failure_reason |-> d.value, raised |-> d.raised]
    ELSE IF res.kind = "ContractLogicError"
    THEN [can_buy |-> FALSE, failure_reason |-> "execution reverted",
          raised |-> "none"]
    ELSE [can_buy |-> FALSE, failure_reason |-> "generic", raised |-> "none"]

\* build_handler with `pass` for `return` in the ContractLogicError clause:
\* the function goes on to sign and send
build_handler_logic_passes(e, mempool, res) ==
    IF res.kind = "ok"
    THEN [next |-> "go on", log |-> << >>, raised |-> "none"]
    ELSE IF res.kind = "ContractCustomError"
    THEN LET d == decode_custom_error(e, conv_abi(e), res.data) IN
         IF d.raised # "none"
         THEN [next |-> "raise", log |-> << >>, raised |-> d.raised]
         ELSE [next |-> "exit", log |-> << "failed in transact()" >>,
               raised |-> "SystemExit"]
    ELSE IF res.kind = "ContractLogicError"
    THEN [next |-> IF mempool THEN "return" ELSE "go on",
          log |-> << "Logic" >>, raised |-> "none"]
    ELSE [next |-> "return",
          log  |-> IF e = "searcher" THEN << >> ELSE << "BaseException" >>,
          raised |-> "none"]

\* the except clauses around build_transaction (and transact):
\* next is "go on", "return", "exit" or "raise"
build_handler(e, mempool, res) ==
    IF res.kind = "ok"
    THEN [next |-> "go on", log |-> << >>, raised |-> "none"]
    ELSE IF res.kind = "ContractCustomError"
    THEN LET d == decode_custom_error(e, conv_abi(e), res.data) IN
         IF d.raised # "none"
         THEN [next |-> "raise", log |-> << >>, raised |-> d.raised]
         ELSE [next |-> "exit", log |-> << "failed in transact()" >>,
               raised |-> "SystemExit"]
    ELSE IF res.kind = "ContractLogicError"
    THEN [next |-> "return", log |-> << "Logic" >>, raised |-> "none"]
    ELSE [next |-> "return",
          log  |-> IF e = "searcher" THEN << >> ELSE << "BaseException" >>,
          raised |-> "none"]

\* sign_transaction, send_raw_transaction and the except clauses after them
send_raw_handler(res) ==
    IF res.kind = "ok"
    THEN [next |-> "return", log |-> << "tx" >>, raised |-> "none",
          outcome |-> "Pending"]
    ELSE [next |-> "return", log |-> << "BaseException" >>, raised |-> "none",
          outcome |-> "Failed"]

\* send_bundle, get_bundle_stats, get_bundle_stats_v2 and wait stand outside
\* any try statement
relay_handler(res, line) ==
    IF res.kind = "ok"
    THEN [next |-> "go on", log |-> line, raised |-> "none"]
    ELSE [next |-> "raise", log |-> << >>, raised |-> "Exception"]

\* receipts_handler without the except TransactionNotFound clause
receipts_handler_uncaught(res) ==
    IF res.kind = "ok"
    THEN [next |-> "return", log |-> << "Bundle was mined" >>,
          raised |-> "none", outcome |-> "Included"]
    ELSE [next |-> "raise", log |-> << >>, raised |-> "Exception",
          outcome |-> "Failed"]

\* the try statement around send_result.receipts()
receipts_handler(res) ==
    IF res.kind = "ok"
    THEN [next |-> "return", log |-> << "Bundle was mined" >>,
          raised |-> "none", outcome |-> "Included"]
    ELSE IF res.kind = "TransactionNotFound"
    THEN [next |-> "return", log |-> << "Bundle not found" >>,
          raised |-> "none", outcome |-> "NotIncluded"]
    ELSE [next |-> "raise", log |-> << >>, raised |-> "Exception",
          outcome |-> "Failed"]

-----------------------------------------------------------------------------
(* The engines *)

Init ==
    /\ engine \in Engines
    /\ use_mempool \in (IF engine = "flashbots" THEN BOOLEAN ELSE {TRUE})
    /\ pc = (IF engine = "searcher" THEN "poll" ELSE "connect")
    /\ exit_status = "running"
    /\ raised = "none"
    /\ inbox = << >>
    /\ notified = 0
    /\ delivered = << >>
    /\ evals = {}
    /\ state_height = 0
    /\ height = 0
    /\ can_buy = FALSE
    /\ failure_reason = None
    /\ last_error = NoError
    /\ effects = << >>
    /\ log = << >>
    /\ outcome = "None"
    /\ conn = "none"
    /\ connections = 0
    /\ timeouts = 0
    /\ drops = 0
    /\ txcount = 0
    /\ pending = 0
    /\ nonce = 0
    /\ dec_data = NoData
    /\ dec_result = [raised |-> "none", value |-> "not called"]

\* where the worker waits for the next height
Idle(e) == IF e = "searcher" THEN "poll" ELSE "recv"

\* where the worker is after loop / try_to_buy has returned
Returned(e) == IF e = "searcher" THEN "report" ELSE "recv"

Effect(op, args) == [op |-> op, args |-> args]

ErrorAt(at, res) ==
    IF res.kind = "ok" THEN NoError ELSE [at |-> at, kind |-> res.kind]

\* one statement of the worker: where it goes, what it called and logged
Goes(to, err, eff, lines) ==
    /\ pc' = to
    /\ exit_status' = "running"
    /\ raised' = "none"
    /\ last_error' = err
    /\ effects' = effects \o eff
    /\ log' = log \o lines

\* the statement raises and nothing catches it: exit(1) raises SystemExit,
\* anything else ends the interpreter with a traceback
Raises(exc, err, eff, lines) ==
    /\ pc' = "done"
    /\ exit_status' = (IF exc = "SystemExit" THEN "exit1" ELSE "uncaught")
    /\ raised' = exc
    /\ last_error' = err
    /\ effects' = effects \o eff
    /\ log' = log \o lines

\* get_event up to the while loop: connect, eth_subscribe, first recv
Connect ==
    /\ pc = "connect"
    /\ Goes("recv", NoError, << >>, << >>)
    /\ conn' = "open"
    /\ connections' = connections + 1
    /\ UNCHANGED << engine, use_mempool, inbox, notified, delivered, evals,
                    state_height, height, can_buy, failure_reason, outcome,
                    decVars, timeouts, drops, chainVars, nonce >>

\* the node pushes a newHeads message; the socket buffers it
Notify ==
    /\ engine # "searcher"
    /\ pc \notin {"connect", "done"}
    /\ conn = "open"
    /\ notified < MaxEvents
    /\ Len(inbox) < MaxInbox
    /\ \E h \in Heights : inbox' = Append(inbox, h)
    /\ notified' = notified + 1
    /\ UNCHANGED << engine, use_mempool, pc, exit_status, raised, delivered,
                    evals, state_height, height, can_buy, failure_reason,
                    last_error, effects, log, outcome, decVars, netVars,
                    chainVars, nonce >>

\* a get_event that hands a message to a new try_to_buy while the relay
\* wait of the last one has not returned
RecvDuringWait ==
    /\ engine # "searcher"
    /\ pc \in {"recv", "wait"}
    /\ inbox # << >>
    /\ height' = Head(inbox)
    /\ inbox' = Tail(inbox)
    /\ delivered' = Append(delivered, Head(inbox))
    /\ pc' = "call"
    /\ can_buy' = FALSE
    /\ failure_reason' = None
    /\ last_error' = NoError
    /\ effects' = << >>
    /\ log' = << >>
    /\ UNCHANGED << engine, use_mempool, exit_status, raised, notified, evals,
                    state_height, outcome, decVars, netVars, chainVars, nonce >>

\* a get_event that reads the newest message and discards the older ones
RecvLatest ==
    /\ engine # "searcher"
    /\ pc = "recv"
    /\ inbox # << >>
    /\ height' = inbox[Len(inbox)]
    /\ inbox' = << >>
    /\ delivered' = Append(delivered, inbox[Len(inbox)])
    /\ pc' = "call"
    /\ can_buy' = FALSE
    /\ failure_reason' = None
    /\ last_error' = NoError
    /\ effects' = << >>
    /\ log' = << >>
    /\ UNCHANGED << engine, use_mempool, exit_status, raised, notified, evals,
                    state_height, outcome, decVars, netVars, chainVars, nonce >>

\* get_event: ws.recv() returns a message, its height goes to try_to_buy
Recv ==
    /\ engine # "searcher"
    /\ pc = "recv"
    /\ inbox # << >>
    /\ height' = Head(inbox)
    /\ inbox' = Tail(inbox)
    /\ delivered' = Append(delivered, Head(inbox))
    /\ pc' = "call"
    /\ can_buy' = FALSE
    /\ failure_reason' = None
    /\ last_error' = NoError
    /\ effects' = << >>
    /\ log' = << >>
    /\ UNCHANGED << engine, use_mempool, exit_status, raised, notified, evals,
                    state_height, outcome, decVars, netVars, chainVars, nonce >>

\* the assignment to state["height"] left out
store_height_skipped(state_h, current_height) == state_h

\* state["height"] = current_height
store_height(state_h, current_height) == current_height

\* searcher.py loop: get_block("latest"), compared with state["height"]
Poll ==
    /\ engine = "searcher"
    /\ pc = "poll"
    /\ notified < MaxEvents
    /\ notified' = notified + 1
    /\ \E current_height \in Heights :
         /\ delivered' = Append(delivered, current_height)
         /\ IF current_height = state_height
            THEN /\ pc' = "poll"          \* sleep(0.5), return; prev = cur
                 /\ UNCHANGED << state_height, height, can_buy,
                                 failure_reason, last_error, effects, log >>
            ELSE /\ state_height' = store_height(state_height, current_height)
                 /\ height' = current_height
                 /\ pc' = "call"
                 /\ can_buy' = FALSE
                 /\ failure_reason' = None
                 /\ last_error' = NoError
                 /\ effects' = << >>
                 /\ log' = << >>
    /\ UNCHANGED << engine, use_mempool, exit_status, raised, inbox, evals,
                    outcome, decVars, netVars, chainVars, nonce >>

\* the `if not can_buy: return failure_reason` left out
after_call_unchecked(e, can) == IF e = "searcher" THEN "transact" ELSE "nonce"

\* where the worker goes after the simulated call:
\* `if not can_buy: return failure_reason`, else on to the submission
after_call(e, can) ==
    IF ~can THEN Returned(e)
    ELSE IF e = "searcher" THEN "transact"
    ELSE "nonce"

\* how many of the requests hand a transaction to the node: an eth_call
\* executes on the node's state and hands over none
transactions_sent(eff) ==
    Cardinality({ i \in DOMAIN eff :
                    eff[i].op \in {"transact", "send_raw_transaction"} })

\* buy(..).transact() where buy(..).call() stands
simulation_transacting(e, h) == << Effect("transact", buy_args(e, h)) >>

\* the request the evaluation makes: buy(..).call(), an eth_call
simulation(e, h) == << Effect("call", buy_args(e, h)) >>

\* the simulated call buy(..).call() and the try statement around it
Call ==
    /\ pc = "call"
    /\ evals' = evals \cup {Len(delivered)}
    /\ \E res \in ContractResults(engine) :
         LET r    == try_call(engine, res)
             eff  == simulation(engine, height)
             line == IF engine = "searcher" THEN << >> ELSE << "height" >>
         IN
         /\ pending' = pending + transactions_sent(eff)
         /\ IF r.raised # "none"
            THEN /\ Raises(r.raised, ErrorAt("call", res), eff, << >>)
                 /\ UNCHANGED << can_buy, failure_reason >>
            ELSE /\ can_buy' = r.can_buy
                 /\ failure_reason' = r.failure_reason
                 /\ Goes(after_call(engine, r.can_buy),
                         ErrorAt("call", res), eff, line)
    /\ UNCHANGED << engine, use_mempool, inbox, notified, delivered,
                    state_height, height, outcome, decVars, netVars, txcount,
                    nonce >>

\* w3.eth.get_transaction_count(acc.address), outside any try statement
Nonce ==
    /\ pc = "nonce"
    /\ \E res \in RpcResults :
         IF res.kind = "ok"
         THEN /\ Goes(IF use_mempool THEN "build" ELSE "max_priority_fee",
                      NoError,
                      << Effect("get_transaction_count", << txcount >>) >>,
                      << >>)
              /\ nonce' = txcount
         ELSE /\ Raises("Exception", ErrorAt("nonce", res),
                        << Effect("get_transaction_count", << >>) >>, << >>)
              /\ UNCHANGED nonce
    /\ UNCHANGED << engine, use_mempool, inbox, notified, delivered, evals,
                    state_height, height, can_buy, failure_reason, outcome,
                    decVars, netVars, chainVars >>

\* what the node suggests as priority fee, in gwei
SuggestedFees == 0 .. MaxSuggestedFee

\* w3.eth.max_priority_fee, outside any try statement
MaxPriorityFee ==
    /\ pc = "max_priority_fee"
    /\ \E res \in RpcResults :
         IF res.kind = "ok"
         THEN \E fee \in SuggestedFees :
                Goes("build", NoError,
                     << Effect("max_priority_fee", << fee >>) >>, << >>)
         ELSE Raises("Exception", ErrorAt("max_priority_fee", res),
                     << Effect("max_priority_fee", << >>) >>, << >>)
    /\ UNCHANGED << engine, use_mempool, inbox, notified, delivered, evals,
                    state_height, height, can_buy, failure_reason, outcome,
                    decVars, netVars, chainVars, nonce >>

\* max_pri_gas: what w3.eth.max_priority_fee answered in this cycle
max_pri_gas(q) ==
    LET i == CHOOSE i \in DOMAIN q : q[i].op = "max_priority_fee" IN q[i].args[1]

\* gwei, w3.to_wei(.., "gwei")
MempoolMaxFee == 100
MempoolPriorityFee == 20
RelayMaxFee == 400
RelayPremium == 10

\* a request that carries the nonce the process started with
transaction_kept_nonce(e, mempool, n, q) ==
    [from |-> "acc", nonce |-> 0,
     maxFeePerGas |-> RelayMaxFee,
     maxPriorityFeePerGas |-> RelayPremium]

\* the dictionary given to build_transaction
transaction(e, mempool, n, q) ==
    CASE e = "subscription" ->
           [from |-> "acc", nonce |-> n,
            maxFeePerGas |-> MempoolMaxFee,
            maxPriorityFeePerGas |-> MempoolPriorityFee]
      [] e = "flashbots" /\ mempool ->
           \* both fee entries are commented out
           [from |-> "acc", nonce |-> n]
      [] OTHER ->
           [from |-> "acc", nonce |-> n,
            maxFeePerGas |-> RelayMaxFee,
            maxPriorityFeePerGas |-> max_pri_gas(q) + RelayPremium]

BuildEffect(args, tx) == [op |-> "build_transaction", args |-> args, tx |-> tx]

\* buy(..).build_transaction({..}) and the except clauses for it
Build ==
    /\ pc = "build"
    /\ \E res \in ContractResults(engine) :
         LET r   == build_handler(engine, use_mempool, res)
             eff == << BuildEffect(buy_args(engine, height),
                                   transaction(engine, use_mempool, nonce,
                                               effects)) >>
             err == ErrorAt("build", res)
         IN
         CASE r.next = "go on" ->
                Goes(IF use_mempool THEN "send_raw" ELSE "send_bundle",
                     err, eff, r.log)
           [] r.next = "return" -> Goes(Returned(engine), err, eff, r.log)
           [] OTHER -> Raises(r.raised, err, eff, r.log)
    /\ UNCHANGED << engine, use_mempool, inbox, notified, delivered, evals,
                    state_height, height, can_buy, failure_reason, outcome,
                    decVars, netVars, chainVars, nonce >>

\* sign_transaction and send_raw_transaction, inside the same try statement
SendRaw ==
    /\ pc = "send_raw"
    /\ \E res \in RpcResults :
         LET r == send_raw_handler(res) IN
         /\ Goes(Returned(engine), ErrorAt("send_raw", res),
                 << Effect("send_raw_transaction", << >>) >>, r.log)
         /\ outcome' = r.outcome
         /\ pending' = (IF res.kind = "ok" THEN pending + 1 ELSE pending)
    /\ UNCHANGED << engine, use_mempool, inbox, notified, delivered, evals,
                    state_height, height, can_buy, failure_reason, decVars,
                    netVars, txcount, nonce >>

\* searcher.py: buy().transact(), gas estimation first, then the send
Transact ==
    /\ engine = "searcher"
    /\ pc = "transact"
    /\ \E res \in ContractResults(engine) \cup {Failure("unavailable")} :
         LET r   == build_handler(engine, use_mempool, res)
             eff == << Effect("transact", buy_args(engine, height)) >>
             err == ErrorAt("transact", res)
         IN
         CASE r.next = "go on" ->
                Goes("get_transaction_receipt", err, eff, r.log)
                  /\ outcome' = "Pending" /\ pending' = pending + 1
           [] r.next = "return" ->
                Goes(Returned(engine), err, eff, r.log)
                  /\ outcome' = "Failed" /\ UNCHANGED pending
           [] OTHER -> Raises(r.raised, err, eff, r.log)
                  /\ UNCHANGED << outcome, pending >>
    /\ UNCHANGED << engine, use_mempool, inbox, notified, delivered, evals,
                    state_height, height, can_buy, failure_reason, decVars,
                    netVars, txcount, nonce >>

\* searcher.py: w3.eth.get_transaction_receipt(tx_hash), in the same try
\* statement; whatever it raises is passed over
GetTransactionReceipt ==
    /\ pc = "get_transaction_receipt"
    /\ \E res \in ReceiptResults :
         Goes(Returned(engine), ErrorAt("get_transaction_receipt", res),
              << Effect("get_transaction_receipt", << >>) >>, << >>)
    /\ UNCHANGED << engine, use_mempool, inbox, notified, delivered, evals,
                    state_height, height, can_buy, failure_reason, outcome,
                    decVars, netVars, chainVars, nonce >>

\* searcher.py run: the height changed, so the block, the spending
\* statistics and the prices are read and printed, outside any try statement
Report ==
    /\ pc = "report"
    /\ \E res \in RpcResults :
         IF res.kind = "ok"
         THEN Goes("poll", NoError, << Effect("report", << >>) >>, << "block" >>)
         ELSE Raises("Exception", ErrorAt("report", res),
                     << Effect("report", << >>) >>, << >>)
    /\ UNCHANGED << engine, use_mempool, inbox, notified, delivered, evals,
                    state_height, height, can_buy, failure_reason, outcome,
                    decVars, netVars, chainVars, nonce >>

\* one of the relay requests that stand outside any try statement
RelayStep(at, to, eff, line) ==
    /\ pc = at
    /\ \E res \in RpcResults :
         LET r == relay_handler(res, line) IN
         IF r.next = "go on"
         THEN Goes(to, NoError, eff, r.log)
         ELSE Raises(r.raised, ErrorAt(at, res), eff, r.log)
    /\ UNCHANGED << engine, use_mempool, inbox, notified, delivered, evals,
                    state_height, height, can_buy, failure_reason, outcome,
                    decVars, netVars, chainVars, nonce >>

\* sign_transaction, then w3.flashbots.send_bundle(bundle, target_block_number)
SendBundle ==
    RelayStep("send_bundle", "get_bundle_stats",
              << Effect("send_bundle", << target_block_number(height) >>) >>,
              << >>)

\* w3.flashbots.get_bundle_stats(bundle_hash, height + 1)
GetBundleStats ==
    RelayStep("get_bundle_stats", "get_bundle_stats_v2",
              << Effect("get_bundle_stats", << stats_block_number(height) >>) >>,
              << "Stats_v1" >>)

\* w3.flashbots.get_bundle_stats_v2(bundle_hash, height + 1)
GetBundleStatsV2 ==
    RelayStep("get_bundle_stats_v2", "wait",
              << Effect("get_bundle_stats_v2", << stats_block_number(height) >>) >>,
              << "Stats_v2" >>)

\* send_result.wait(): blocks until the target block is there
\* a wait that goes on polling for the target block and never returns
WaitForever ==
    /\ pc \in {"wait", "waiting"}
    /\ pc' = (IF pc = "wait" THEN "waiting" ELSE "wait")
    /\ UNCHANGED << engine, use_mempool, exit_status, raised, inbox, notified,
                    delivered, evals, state_height, height, can_buy,
                    failure_reason, last_error, effects, log, outcome,
                    decVars, netVars, chainVars, nonce >>

Wait ==
    RelayStep("wait", "receipts", << Effect("wait", << >>) >>, << >>)

\* send_result.receipts() and the try statement around it
Receipts ==
    /\ pc = "receipts"
    /\ \E res \in ReceiptResults :
         LET r   == receipts_handler(res)
             eff == << Effect("receipts", << >>) >>
             err == ErrorAt("receipts", res)
         IN
         IF r.next = "return"
         THEN /\ Goes(Returned(engine), err, eff, r.log)
              /\ outcome' = r.outcome
              \* receipts exist: the bundle's transaction is in the target block
              /\ txcount' = (IF res.kind = "ok" THEN txcount + 1 ELSE txcount)
         ELSE Raises(r.raised, err, eff, r.log) /\ UNCHANGED << outcome, txcount >>
    /\ UNCHANGED << engine, use_mempool, inbox, notified, delivered, evals,
                    state_height, height, can_buy, failure_reason, decVars,
                    netVars, pending, nonce >>

\* every failure of the receive treated as the strict variant treats it
recv_handler_strict(e, exc) == "raise"

\* what get_event does when wait_for(ws.recv(), timeout=60) raises:
\* flashbots-searcher.py has `except: continue` around it,
\* subscription-searcher.py has nothing
recv_handler(e, exc) == IF e = "flashbots" THEN "continue" ELSE "raise"

\* a failed receive: the loop goes round again, or the exception leaves
\* get_event (closing the socket) and, nothing catching it in main, the process
RecvFails(exc) ==
    /\ IF recv_handler(engine, exc) = "continue"
       THEN /\ pc' = "recv"
            /\ exit_status' = "running"
            /\ raised' = "none"
            /\ conn' = conn
       ELSE /\ pc' = "done"
            /\ exit_status' = "uncaught"
            /\ raised' = exc
            /\ conn' = "closed"
    /\ last_error' = [at |-> "recv", kind |-> exc]

\* no message for 60 seconds: asyncio.wait_for raises TimeoutError
RecvTimeout ==
    /\ engine # "searcher"
    /\ pc = "recv"
    /\ conn = "open"
    /\ inbox = << >>
    /\ timeouts < MaxTimeouts
    /\ timeouts' = timeouts + 1
    /\ RecvFails("TimeoutError")
    /\ UNCHANGED << engine, use_mempool, inbox, notified, delivered, evals,
                    state_height, height, can_buy, failure_reason, effects,
                    log, outcome, connections, drops, chainVars, nonce,
                    decVars >>

\* the connection to the node is lost
Drop ==
    /\ engine # "searcher"
    /\ conn = "open"
    /\ pc # "done"
    /\ drops < MaxDrops
    /\ drops' = drops + 1
    /\ conn' = "dropped"
    /\ UNCHANGED << engine, use_mempool, pc, exit_status, raised, inbox,
                    notified, delivered, evals, state_height, height, can_buy,
                    failure_reason, last_error, effects, log, outcome,
                    connections, timeouts, chainVars, nonce, decVars >>

\* ws.recv() on the lost connection, the buffered messages read:
\* ConnectionClosed
RecvClosed ==
    /\ engine # "searcher"
    /\ pc = "recv"
    /\ conn = "dropped"
    /\ inbox = << >>
    /\ RecvFails("ConnectionClosed")
    /\ UNCHANGED << engine, use_mempool, inbox, notified, delivered, evals,
                    state_height, height, can_buy, failure_reason, effects,
                    log, outcome, connections, timeouts, drops, chainVars,
                    nonce, decVars >>

\* a block takes one of the account's pending transactions
Mine ==
    /\ pending > 0
    /\ pending' = pending - 1
    /\ txcount' = txcount + 1
    /\ UNCHANGED << engine, use_mempool, pc, exit_status, raised, inbox,
                    notified, delivered, evals, state_height, height, can_buy,
                    failure_reason, last_error, effects, log, outcome,
                    netVars, nonce, decVars >>

Next ==
    \/ Connect
    \/ Notify
    \/ Recv
    \/ Poll
    \/ Call
    \/ Nonce
    \/ MaxPriorityFee
    \/ Build
    \/ SendRaw
    \/ Transact
    \/ GetTransactionReceipt
    \/ Report
    \/ SendBundle
    \/ GetBundleStats
    \/ GetBundleStatsV2
    \/ Wait
    \/ Receipts
    \/ RecvTimeout
    \/ Drop
    \/ RecvClosed
    \/ Mine

Spec == Init /\ [][Next]_vars

\* the statements of one cycle, from the simulated call to its last request
CyclePcs ==
    {"call", "nonce", "max_priority_fee", "build", "send_raw", "transact",
     "get_transaction_receipt", "send_bundle", "get_bundle_stats",
     "get_bundle_stats_v2", "wait", "receipts"}

\* every statement the worker can be at
Statements == CyclePcs \cup {"connect", "recv", "poll", "report", "done"}

\* the worker leaves the statement of the cycle it is at
Proceeds == pc \in CyclePcs /\ pc' \in Statements

\* the head feed and the worker; the network failures and the mining of
\* blocks, which act only between cycles or on the account, are left to Spec
NextCycle ==
    \/ Connect
    \/ Notify
    \/ Recv
    \/ Poll
    \/ Call
    \/ Nonce
    \/ MaxPriorityFee
    \/ Build
    \/ SendRaw
    \/ Transact
    \/ GetTransactionReceipt
    \/ Report
    \/ SendBundle
    \/ GetBundleStats
    \/ GetBundleStatsV2
    \/ Wait
    \/ Receipts

\* every external call and the relay wait return or fail: the worker does not
\* stay at one statement of a cycle for ever
SpecFair == Init /\ [][NextCycle]_vars /\ WF_pc(Proceeds)

-----------------------------------------------------------------------------
(* The Error Decoder on its own: decode_custom_error applied to the data of *)
(* one exception                                                            *)

UpperOf(c) ==
    CASE c = "a" -> "A" [] c = "b" -> "B" [] c = "c" -> "C"
      [] c = "d" -> "D" [] c = "e" -> "E" [] c = "f" -> "F"
      [] OTHER -> c

upper(s) == [i \in DOMAIN s |-> UpperOf(s[i])]

SeqRange(q) == { q[i] : i \in DOMAIN q }

AllEntries == UNION { SeqRange(conv_abi(e)) : e \in Engines }

\* the selector of every entry of the three tables, as printed and in
\* capitals, and one that no table holds
DecodeSelectors ==
    LET sels == { function_abi_to_4byte_selector(a) : a \in AllEntries } IN
    sels \cup { upper(x) : x \in sels } \cup { UnregisteredSelector }

MaxPayloadWords == 1    \* 32-byte words of parameter payload in the inputs

ZeroWords(n) == [i \in 1 .. 64 * n |-> "0"]

\* what follows the selector: nothing, half a byte, one byte, two
\* characters that are no hex digits, whole words
DecodePayloads ==
    { << >>, << "0" >>, << "0", "0" >>, << "z", "z" >> }
      \cup { ZeroWords(n) : n \in 1 .. MaxPayloadWords }

DecodeInputs ==
    { Data(Hex0x(x, p)) : x \in DecodeSelectors, p \in DecodePayloads }
      \cup { Data(<< "0", "x" >> \o SubSeq(x, 1, n)) :
                x \in DecodeSelectors, n \in 0 .. 7 }
      \cup { Data(<< >>), NoData }

DecInit ==
    /\ engine \in Engines
    /\ dec_data \in DecodeInputs
    /\ dec_result = [raised |-> "none", value |-> "not called"]
    /\ pc = "decode"
    /\ use_mempool = TRUE
    /\ exit_status = "running"
    /\ raised = "none"
    /\ inbox = << >>
    /\ notified = 0
    /\ delivered = << >>
    /\ evals = {}
    /\ state_height = 0
    /\ height = 0
    /\ can_buy = FALSE
    /\ failure_reason = None
    /\ last_error = NoError
    /\ effects = << >>
    /\ log = << >>
    /\ outcome = "None"
    /\ conn = "none"
    /\ connections = 0
    /\ timeouts = 0
    /\ drops = 0
    /\ txcount = 0
    /\ pending = 0
    /\ nonce = 0

\* the call decode_custom_error(w3, conv_abi, exp)
Decode ==
    /\ pc = "decode"
    /\ dec_result' = decode_custom_error(engine, conv_abi(engine), dec_data)
    /\ pc' = "decoded"
    /\ UNCHANGED << engine, use_mempool, exit_status, raised, inbox, notified,
                    delivered, evals, state_height, height, can_buy,
                    failure_reason, last_error, effects, log, outcome,
                    dec_data, netVars, chainVars, nonce >>

DecNext == Decode

SpecDecode == DecInit /\ [][DecNext]_vars

-----------------------------------------------------------------------------
(* Properties *)

Ops(q) == { q[i].op : i \in DOMAIN q }

Lines(q) == { q[i] : i \in DOMAIN q }

\* C1: when the same height is delivered twice in a row, the engine runs at
\* most one evaluation cycle (one simulated buy call) for it, in the polling
\* engine and in the websocket engines alike.
C1_ConsecutiveDedup ==
    \A i \in 1 .. Len(delivered) - 1 :
        delivered[i] = delivered[i + 1] => ~(i \in evals /\ (i + 1) \in evals)

\* C2: every bundle sent while handling height h has target block h + 1, never
\* h, and the two bundle-statistics queries of the cycle use the same h + 1.
C2_BundleTargetsNextBlock ==
    \A i \in DOMAIN effects :
        effects[i].op \in {"send_bundle", "get_bundle_stats", "get_bundle_stats_v2"}
            => /\ effects[i].args = << height + 1 >>
               /\ effects[i].args # << height >>
               /\ height = delivered[Len(delivered)]

C2_Witness ==
    /\ pc = "wait"
    /\ {"send_bundle", "get_bundle_stats", "get_bundle_stats_v2"} \subseteq Ops(effects)

\* C3: when the receipt lookup of a bundle reports not-found, the outcome is
\* NotIncluded, the process keeps running and the engine waits for the next
\* height; the next height it receives goes to evaluation as any other.
C3_NotIncludedContinues ==
    /\ [][ (pc = "receipts" /\ last_error'.kind = "TransactionNotFound")
              => /\ outcome' = "NotIncluded"
                 /\ exit_status' = "running"
                 /\ pc' = "recv"
                 /\ Effect("send_bundle", << height + 1 >>) \in Lines(effects')
         ]_vars
    /\ [][ (pc = "recv" /\ outcome = "NotIncluded" /\ pc' # "recv")
              => /\ pc' = "call"
                 /\ height' = Head(inbox)
                 /\ exit_status' = "running"
         ]_vars

C3_Witness ==
    /\ outcome = "NotIncluded"
    /\ Cardinality(evals) >= 2
    /\ pc = "nonce"
    /\ can_buy

SubmissionSteps ==
    {"send_raw", "transact", "send_bundle", "get_bundle_stats",
     "get_bundle_stats_v2", "wait", "receipts"}

\* C4: under both strategies a submission that fails with the
\* service-unavailable error code -32000 terminates the process; the engine
\* never goes on to a later height after it.
C4_UnavailableIsFatal ==
    (last_error.at \in SubmissionSteps /\ last_error.kind = "unavailable"
       /\ engine # "searcher")
        => (pc = "done" /\ exit_status # "running")

\* C5: a submission-time error other than service-unavailable (a failed raw
\* broadcast, bundle send, bundle-statistics query or wait) is logged and
\* non-fatal under both strategies: the process keeps running.
C5_OtherSubmissionErrorsNonFatal ==
    (last_error.at \in {"send_raw", "send_bundle", "get_bundle_stats",
                        "get_bundle_stats_v2", "wait"}
       /\ last_error.kind = "error")
        => (exit_status = "running" /\ pc = Returned(engine))

BroadcastOps == {"send_raw_transaction", "send_bundle"}

\* C6: under the Mempool strategy, when the simulation succeeded and the build
\* fails with a custom error, the failure is decoded and logged, nothing is
\* broadcast for that height and the process exits with a nonzero status.
\* Stated for the Mempool strategy of flashbots-searcher.py (submit_mempool).
C6_MempoolBuildFailureExits ==
    (engine = "flashbots" /\ use_mempool /\ last_error.at = "build"
       /\ last_error.kind = "ContractCustomError")
        => /\ can_buy
           /\ pc = "done"
           /\ exit_status # "running"
           /\ "failed in transact()" \in Lines(log)
           /\ Ops(effects) \cap BroadcastOps = {}

\* C7: under the PrivateRelay strategy a custom-error failure while building
\* is a skip-and-retry condition: logged, no bundle sent, the process does
\* not terminate and the engine goes on to the next height.
C7_RelayBuildFailureSkips ==
    (~use_mempool /\ last_error.at = "build"
       /\ last_error.kind = "ContractCustomError")
        => /\ exit_status = "running"
           /\ pc = "recv"
           /\ "send_bundle" \notin Ops(effects)

\* C7 as amended: under the PrivateRelay strategy a build failure never sends
\* a bundle; a plain revert or any other exception that is no custom error is
\* the skip-and-retry condition (logged, the process keeps running, the engine
\* waits for the next height), and a custom-error failure terminates the
\* process.
C7_RelayBuildFailure ==
    (~use_mempool /\ last_error.at = "build")
        => /\ Ops(effects) \cap BroadcastOps = {}
           /\ last_error.kind = "ContractCustomError"
                => (pc = "done" /\ exit_status # "running")
           /\ last_error.kind # "ContractCustomError"
                => /\ exit_status = "running"
                   /\ pc = "recv"
                   /\ log # << >>
                   /\ log[Len(log)] \in {"Logic", "BaseException"}

C7_Witness ==
    /\ ~use_mempool
    /\ last_error = [at |-> "build", kind |-> "ContractLogicError"]
    /\ pc = "recv"
    /\ "Logic" \in Lines(log)

\* C8: every failure of the simulated call (a custom error with a registered
\* or an unregistered selector, a plain revert, a network error) is recovered
\* locally: the cycle ends Ineligible with no build and no submission and the
\* process keeps running. Stated for try_to_buy of flashbots-searcher.py.
C8_EvaluationFailureRecovered ==
    (engine = "flashbots" /\ last_error.at = "call")
        => /\ exit_status = "running"
           /\ ~can_buy
           /\ pc = Returned(engine)
           /\ Ops(effects) = {"call"}

\* C9: for any raw error data (a matching selector followed by a truncated,
\* odd-length or otherwise undecodable payload, data shorter than 4 bytes)
\* the Error Decoder of searcher.py and subscription-searcher.py never raises.
C9_DecoderNeverRaises ==
    (pc = "decoded" /\ engine \in {"searcher", "subscription"})
        => dec_result.raised = "none"

\* C10: for every failure signature in the registry, decoding the encoding of
\* that failure returns its name and parameters as name(param1,...); for a
\* failure without parameters, such as Transformer__WrongHeight, the result
\* is the name followed by "()".
C10_RoundTrip ==
    \A entry \in SeqRange(SelectSeq(conv_abi(engine), IsErrorEntry)) :
        (pc = "decoded"
           /\ dec_data = Data(Hex0x(function_abi_to_4byte_selector(entry), << >>)))
            => dec_result = [raised |-> "none", value |-> entry.name \o "()"]

\* the characters of the first 4 bytes of the data: those after "0x"
First4(text) ==
    [i \in 1 .. (IF Len(text) >= 10 THEN 8
                 ELSE IF Len(text) > 2 THEN Len(text) - 2 ELSE 0) |-> text[i + 2]]

\* the entries of type error whose selector is those 4 bytes, whatever the case
MatchingErrors(e, text) ==
    { a \in SeqRange(conv_abi(e)) :
        /\ a.type = "error"
        /\ Len(First4(text)) = 8
        /\ \A i \in 1 .. 8 :
              LowerOf(selector_hex(abi_signature(a))[i]) = LowerOf(First4(text)[i]) }

\* C11: the Error Decoder of searcher.py (and its copy in
\* subscription-searcher.py) compares only the first 4 bytes of the data with
\* each registered selector, ignoring hex letter case, looks only at entries of
\* type error, and returns None exactly when no registered selector equals
\* those 4 bytes; on a match what it returns is the matching entry's name(),
\* whatever follows the 4 bytes.
C11_SelectorMatch ==
    (pc = "decoded" /\ engine \in {"searcher", "subscription"})
        => /\ (dec_result = [raised |-> "none", value |-> None])
                <=> (MatchingErrors(engine, str(dec_data)) = {})
           /\ (MatchingErrors(engine, str(dec_data)) # {} /\ dec_result.raised = "none")
                => \E a \in MatchingErrors(engine, str(dec_data)) :
                      dec_result.value = a.name \o "()"

C11_Witness ==
    /\ pc = "decoded"
    /\ engine = "searcher"
    /\ dec_data = Data(Hex0x(<< "B", "0", "5", "8", "5", "3", "5", "7" >>,
                             << "0", "0" >>))
    /\ dec_result = [raised |-> "none", value |-> "Converter__SoftwareError()"]

\* C12: over any sequence of height notifications of one run, also one in
\* which an earlier height comes back after a different one (100, 101, 100),
\* the engine runs an evaluation cycle for a given height at most once.
\* Stated for the polling engine, the one that keeps a last processed height.
C12_AtMostOncePerHeight ==
    engine = "searcher"
        => \A i \in evals : \A j \in evals : i # j => delivered[i] # delivered[j]

\* the requests that build, sign or send something
BuildOps == {"get_transaction_count", "max_priority_fee", "build_transaction"}

SubmitOps == {"send_raw_transaction", "transact", "send_bundle"}

\* C13: within a cycle the engine evaluates, then builds, then submits: a
\* transaction is built or submitted for a height only after the simulated
\* call for that height succeeded in the same cycle, and after an Ineligible
\* evaluation the worker returns with no nonce fetch, no build and no
\* submission.
C13_EvaluateBuildSubmit ==
    /\ \A i \in DOMAIN effects :
          effects[i].op \in BuildOps \cup SubmitOps
            => /\ i > 1
               /\ effects[1] = Effect("call", buy_args(engine, height))
               /\ can_buy
               /\ \E k \in evals : delivered[k] = height
    /\ \A i \in DOMAIN effects : \A j \in DOMAIN effects :
          (effects[i].op \in BuildOps /\ effects[j].op \in SubmitOps) => i < j
    /\ (effects # << >> /\ ~can_buy)
          => Ops(effects) \cap (BuildOps \cup SubmitOps) = {}
    /\ pc \in {"nonce", "max_priority_fee", "build", "send_raw", "transact",
               "send_bundle"} => (can_buy /\ Ops(effects) \cap SubmitOps = {})

\* a cycle that went through all three steps
C13_Witness ==
    /\ "call" \in Ops(effects)
    /\ "build_transaction" \in Ops(effects)
    /\ "send_bundle" \in Ops(effects)

\* C14: the engine is a single worker: a height is taken up, and its
\* evaluation starts, only when no step of an earlier height is in progress,
\* also when head notifications arrive during the blocking relay wait (they
\* stay unread); no cycle makes two submissions.
C14_SingleWorker ==
    /\ [][ /\ (delivered' # delivered) => (pc \notin CyclePcs)
           /\ (evals' # evals)
                => (pc = "call" /\ evals' = evals \cup {Len(delivered)})
           /\ (pc \in CyclePcs /\ pc' \in CyclePcs)
                => (height' = height /\ delivered' = delivered)
         ]_vars
    /\ [](\A i \in DOMAIN effects : \A j \in DOMAIN effects :
             (effects[i].op \in SubmitOps /\ effects[j].op \in SubmitOps)
                => i = j)

\* a head notification has arrived while the relay wait is in progress
C14_Witness ==
    /\ pc = "wait"
    /\ inbox # << >>
    /\ "send_bundle" \in Ops(effects)

\* C15: in the soft-retry monitor (flashbots-searcher.py) a receive that times
\* out keeps the subscription and starts no evaluation: the worker is back at
\* the receive on the same connection, nothing delivered, evaluated or
\* requested; and a height that arrives after timeouts is received and goes
\* to the evaluation.
C15_SoftRetry ==
    /\ [][ (engine = "flashbots" /\ timeouts' # timeouts) =>
             /\ pc = "recv" /\ pc' = "recv"
             /\ exit_status' = "running"
             /\ conn' = conn
             /\ connections' = connections
             /\ inbox' = inbox
             /\ delivered' = delivered
             /\ evals' = evals
             /\ effects' = effects ]_vars
    /\ [][ (engine = "flashbots" /\ timeouts > 0 /\ pc = "recv"
               /\ pc' # "recv") =>
             /\ inbox # << >>
             /\ pc' = "call"
             /\ height' = Head(inbox)
             /\ delivered' = Append(delivered, Head(inbox)) ]_vars
    /\ [][ (engine = "flashbots" /\ timeouts > 0 /\ pc = "call"
               /\ pc' # "call") =>
             evals' = evals \cup {Len(delivered)} ]_vars
    /\ []((engine = "flashbots" /\ timeouts > 0 /\ pc = "recv"
               /\ inbox # << >>) => ENABLED Recv)

\* two timeouts, then the first height, evaluated on the first connection
C15_Witness ==
    /\ engine = "flashbots"
    /\ timeouts >= 2
    /\ connections = 1
    /\ delivered = << 1 >>
    /\ evals = {1}
    /\ pc = "nonce"

\* C16: in the strict monitor (subscription-searcher.py) a receive timeout
\* leads to a reconnect: after the timeout the process is running and the
\* driver is about to open a new connection.
C16_TimeoutReconnects ==
    (engine = "subscription"
       /\ last_error = [at |-> "recv", kind |-> "TimeoutError"]) =>
        /\ exit_status = "running"
        /\ pc = "connect"

\* C17: after a connection drop the receive fails with the transport error,
\* the process is running, and the driver is about to restart the
\* subscription (it is not back at the receive on the dead connection).
C17_DropRestartsSubscription ==
    (last_error = [at |-> "recv", kind |-> "ConnectionClosed"]) =>
        /\ exit_status = "running"
        /\ pc = "connect"

\* C18: a failed nonce fetch or a failed suggested-priority-fee fetch does
\* not terminate the process.
C18_FetchFailureNotFatal ==
    (last_error.at \in {"nonce", "max_priority_fee"}
       /\ last_error.kind = "error") =>
        exit_status = "running"

\* C19: the evaluation step makes one request, the read-only call, and leaves
\* the account as it was: the transactions the chain has counted, those
\* pending at the node, and the nonce the engine holds are the same after the
\* step as before, whatever the call answered.
C19_EvaluationReadOnly ==
    [][ (pc = "call" /\ pc' # "call") =>
          /\ effects' = effects \o << Effect("call", buy_args(engine, height)) >>
          /\ txcount' = txcount
          /\ pending' = pending
          /\ nonce' = nonce ]_vars

\* an evaluation by an account that has a transaction counted and one pending
C19_Witness ==
    /\ effects = << Effect("call", buy_args(engine, height)) >>
    /\ pc # "call"
    /\ txcount >= 1
    /\ pending >= 1

RelayOrder ==
    << "send_bundle", "get_bundle_stats", "get_bundle_stats_v2", "wait",
       "receipts" >>

IsRelayOp(x) == x.op \in { RelayOrder[i] : i \in DOMAIN RelayOrder }

RelayOps(q) ==
    [ i \in 1 .. Len(SelectSeq(q, IsRelayOp)) |-> SelectSeq(q, IsRelayOp)[i].op ]

\* C20: the relay requests of a cycle are made in the order send bundle,
\* stats v1, stats v2, wait, receipts, each at most once; and once the
\* receipts have been asked for, the cycle has ended Included or NotIncluded
\* with the process running.
C20_RelayOrderTwoOutcomes ==
    /\ \E n \in 0 .. Len(RelayOrder) :
         RelayOps(effects) = SubSeq(RelayOrder, 1, n)
    /\ "receipts" \in Ops(effects) =>
         /\ outcome \in {"Included", "NotIncluded"}
         /\ exit_status = "running"

\* the name(params) strings the decoder can give for the engine's registry
DecodedNames(e) ==
    { a.name \o "()" : a \in { x \in SeqRange(conv_abi(e)) : x.type = "error" } }

\* C21: after an evaluation that failed (searcher.py, subscription-searcher.py)
\* the reason is never none; it is "generic" for a failure without structured
\* data, and for a structured failure it is a decoded name(params) string or
\* the raw failure message.
C21_IneligibleReason ==
    (engine \in {"searcher", "subscription"}
       /\ last_error.at = "call"
       /\ exit_status = "running") =>
        /\ ~can_buy
        /\ failure_reason # None
        /\ last_error.kind = "Exception" => failure_reason = "generic"
        /\ last_error.kind = "ContractCustomError" =>
             failure_reason \in DecodedNames(engine) \cup {"execution reverted"}

\* C22: under the assumption that every external call and the relay wait
\* return or fail, a cycle that has started leaves Evaluating, Building and
\* Submitting: the worker is back where it waits for the next height (for
\* searcher.py, at the report that precedes it) or the process has ended.
C22_CycleTerminates ==
    (pc \in CyclePcs) ~> (pc \in {"recv", "poll", "report", "done"})

\* a relay cycle that went through every step and is back at the receive
C22_Witness ==
    /\ pc = "recv"
    /\ Len(delivered) \in evals
    /\ RelayOps(effects) = RelayOrder
    /\ outcome = "Included"

\* C23: in searcher.py state["height"] is zero at the start; it is written
\* only when a poll sees a height that differs from it, with that height and
\* before the evaluation of that height starts; a poll that sees the same
\* height writes nothing and starts no cycle; and it is the height of the most
\* recent cycle in every later state, whether that cycle failed or not.
C23_LastProcessedHeight ==
    /\ [](engine = "searcher" =>
            /\ delivered = << >> => state_height = 0
            /\ state_height = height
            /\ evals # {} => state_height \in Heights)
    /\ [][ (engine = "searcher" /\ state_height' # state_height) =>
             /\ pc = "poll" /\ pc' = "call"
             /\ state_height' = delivered'[Len(delivered')]
             /\ Len(delivered') \notin evals'
             /\ effects' = << >> ]_vars
    /\ [][ (engine = "searcher" /\ delivered' # delivered
               /\ delivered'[Len(delivered')] = state_height) =>
             /\ state_height' = state_height
             /\ pc' = "poll"
             /\ evals' = evals
             /\ effects' = effects ]_vars

\* the height of a failed evaluation is seen again and is not taken up
C23_Witness ==
    /\ engine = "searcher"
    /\ pc = "poll"
    /\ Len(delivered) >= 2
    /\ delivered[Len(delivered)] = state_height
    /\ delivered[Len(delivered) - 1] = state_height
    /\ (Len(delivered) - 1) \in evals
    /\ Len(delivered) \notin evals
    /\ ~can_buy

\* C24: every request built for the Mempool strategy carries the fixed max fee
\* and the fixed priority fee; every request built for the PrivateRelay
\* strategy carries the fixed max fee and a priority fee that is the suggested
\* fee of that cycle plus the fixed premium, more than the suggested fee.
C24_Fees ==
    \A i \in DOMAIN effects :
        effects[i].op = "build_transaction" =>
            LET tx == effects[i].tx IN
            /\ {"maxFeePerGas", "maxPriorityFeePerGas"} \subseteq DOMAIN tx
            /\ use_mempool =>
                 /\ tx.maxFeePerGas = MempoolMaxFee
                 /\ tx.maxPriorityFeePerGas = MempoolPriorityFee
            /\ ~use_mempool =>
                 /\ tx.maxFeePerGas = RelayMaxFee
                 /\ tx.maxPriorityFeePerGas = max_pri_gas(effects) + RelayPremium
                 /\ tx.maxPriorityFeePerGas > max_pri_gas(effects)

\* C25: in a cycle of flashbots-searcher.py for height h the simulated call
\* and the build (Mempool or PrivateRelay) invoke buy with the argument h - 1,
\* and the nonce of the request is the transaction count that was read in
\* this cycle, after the simulated call and before the build.
C25_SubmittedIsSimulated ==
    engine = "flashbots" =>
        \A i \in DOMAIN effects :
            /\ effects[i].op = "call" =>
                 i = 1 /\ effects[i].args = << height - 1 >>
            /\ effects[i].op = "build_transaction" =>
                 /\ effects[i].args = << height - 1 >>
                 /\ effects[1] = Effect("call", << height - 1 >>)
                 /\ effects[2] = Effect("get_transaction_count",
                                        << effects[i].tx.nonce >>)
                 /\ i > 2

\* a second request of the run, built after the account's first transaction
\* has been counted and another has been sent
C25_Witness ==
    /\ engine = "flashbots"
    /\ "build_transaction" \in Ops(effects)
    /\ Len(delivered) >= 2
    /\ nonce >= 1
    /\ effects[2] = Effect("get_transaction_count", << nonce >>)
    /\ pc \in {"send_raw", "send_bundle"}

\* C26: in the websocket engines the notifications received, read or still
\* unread, stay one sequence that only grows at its end (none lost, none
\* reordered); a message is read only at the receive, it is the oldest unread
\* one and it starts one cycle; a notification that arrives during a cycle,
\* the relay wait included, stays unread until the cycle has returned, and
\* the receive can then take it; each height read is evaluated once, and a
\* cycle sends at most one transaction or bundle.
C26_NoNotificationLost ==
    /\ [][ engine # "searcher" =>
             /\ \/ delivered' \o inbox' = delivered \o inbox
                \/ /\ delivered' = delivered
                   /\ \E h \in Heights : inbox' = Append(inbox, h)
             /\ delivered' # delivered =>
                  /\ pc = "recv" /\ pc' = "call"
                  /\ inbox # << >>
                  /\ delivered' = Append(delivered, Head(inbox))
                  /\ inbox' = Tail(inbox)
                  /\ height' = Head(inbox)
                  /\ Len(delivered') \notin evals
             /\ evals' # evals =>
                  /\ Len(delivered) \notin evals
                  /\ evals' = evals \cup {Len(delivered)}
             /\ (pc = "call" /\ pc' # "call") => Len(delivered) \in evals'
           ]_vars
    /\ [](engine # "searcher" =>
            /\ (pc = "recv" /\ inbox # << >>) => ENABLED Recv
            /\ Cardinality({ i \in DOMAIN effects :
                               effects[i].op \in SubmitOps }) <= 1)

\* two notifications came in during the first relay cycle; the first of them
\* is being evaluated, the second is still unread
C26_Witness ==
    /\ engine = "flashbots"
    /\ ~use_mempool
    /\ outcome \in {"Included", "NotIncluded"}
    /\ Len(delivered) = 2
    /\ Len(inbox) = 1
    /\ delivered[2] # inbox[1]
    /\ timeouts = 0
    /\ pc = "nonce"

====
